---------------------------- MODULE Spec2Model ----------------------------
(***************************************************************************)
(* A model of the two components of the repository:                       *)
(*                                                                         *)
(*  - the Trust Store Validator                                             *)
(*    (auto-trust-store-manager/test-suite/trust_chain_validator.py):      *)
(*    main -> generate_client_cert -> run_tests -> sys.exit;                *)
(*  - the Certificate Info Server (ssl_test_website/src/app.py):           *)
(*    the /api/status, /api/cert-info and /mtls request handlers.           *)
(*                                                                         *)
(* Everything outside the repository (the TLS stack, the HTTP client, the  *)
(* file system, the X.509 parser) is an input: each call that can raise is *)
(* a point of the outcome the environment chooses.                         *)
(***************************************************************************)
EXTENDS Integers, Sequences, FiniteSets, TLC

VARIABLES
    pc,            \* position of main(): main, run_tests, webserver, mtls, finish, exit, done, aborted
    config,        \* argparse namespace: which of client_cert / client_key / output are non-empty
    fs,            \* the file system and host: client credential files, scan directory, keytool
    trust_stores,  \* run_tests' local list returned by discover_trust_stores
    idx,           \* 1-based position of the for loop of run_tests in trust_stores
    test_results,  \* TrustChainValidator.test_results
    success,       \* run_tests' local `success`, then main's
    calls,         \* history: every invocation of a test operation, in order, with
                   \* what it returned, whether its try block raised, and the HTTP status
    https_gets,    \* history: number of requests.get calls made
    gen_ret,       \* what generate_client_cert returned ("None" before the call / when it raised)
    exit_code,     \* status handed to sys.exit ("None" while running)
    chain_file,    \* /etc/nginx/ssl/chain.crt: whether it exists, and its content
    ca_file,       \* /etc/nginx/ssl/ca-trust-store.pem: whether it exists, and its content
    server_crt,    \* what reading /etc/nginx/ssl/server.crt gives: a certificate id or "error"
    request,       \* the request being answered: [path, verify, dn]
    response,      \* the JSON body of the last response
    loop           \* one PEM-splitting loop of get_certificate_chain_info, iteration
                   \* by iteration: which loop, the file data, current, the
                   \* certificates collected, iterations run, and how it stands

vvars == <<pc, config, fs, trust_stores, idx, test_results, success, calls,
           https_gets, gen_ret, exit_code>>
svars == <<chain_file, ca_file, server_crt, request, response, loop>>
vars == <<vvars, svars>>

-----------------------------------------------------------------------------
(* Bounds *)

MaxStores == 2     \* trust-store files (PEM and keystore) under scan_dir
MaxLen == 3        \* blocks in the chain file and the CA trust-store file together

-----------------------------------------------------------------------------
(* Trust Store Validator: data *)

NoneVal == "None"

\* TrustChainValidator.__init__: the empty result structure (times left out).
InitResults ==
    [webserver |-> <<>>, mtls |-> <<>>,
     summary |-> [total_tests |-> 0, passed |-> 0, failed |-> 0]]

\* The exception classes the two except clauses of a test tell apart.
ExcKinds == {"SSLError", "Exception"}

\* The calls of test_webserver_connection's try block that can raise, in
\* program order.  "with_exit" is the exit of the two `with` blocks (closing
\* the sockets), which runs after `passed += 1` and still inside the try.
WebPoints == {"create_context", "connect", "wrap_socket", "getpeercert",
              "certificate_info", "with_exit"}

\* ssl.create_default_context(cafile=...) loads PEM only: a keystore file
\* makes it raise before any connection is attempted.
WebOutcomes(trust_store) ==
    IF trust_store.type = "jks"
    THEN {[at |-> "create_context", kind |-> k] : k \in ExcKinds}
    ELSE {[at |-> "none", kind |-> NoneVal]}
         \cup {[at |-> p, kind |-> k] : p \in WebPoints, k \in ExcKinds}

\* What requests.get and the handling of its response can do: raise in
\* requests.get, answer with a status code, raise in response.json().
HttpCodes == {200, 403}

MtlsOutcomes ==
    {[at |-> "none", kind |-> NoneVal, status_code |-> c] : c \in HttpCodes}
    \cup {[at |-> "get", kind |-> k, status_code |-> 0] : k \in ExcKinds}
    \cup {[at |-> "json", kind |-> k, status_code |-> 200] : k \in ExcKinds}

ErrorText(kind) == IF kind = "SSLError" THEN "SSL Error" ELSE "Error"

-----------------------------------------------------------------------------
(* Trust Store Validator: operations *)

\* discover_trust_stores: the PEM files first, then (when keytool runs) the
\* keystores one of the three passwords opens.
discover_trust_stores(f) ==
    LET nj == IF f.keytool THEN f.jks ELSE 0
    IN  [k \in 1..(f.pem + nj) |->
            [path |-> k, type |-> IF k <= f.pem THEN "pem" ELSE "jks"]]

\* test_webserver_connection(trust_store) on results r with outcome out.
\* Gives the new results and the returned boolean.
test_webserver_connection(r, trust_store, out) ==
    LET raised    == out.at # "none"
        \* status = "passed" and passed += 1 are reached unless a call before
        \* them raised
        reached   == out.at \in {"none", "with_exit"}
        test_case == [trust_store |-> trust_store.path,
                      status |-> IF reached THEN "passed" ELSE "failed",
                      error |-> IF raised THEN ErrorText(out.kind) ELSE NoneVal,
                      payload |-> IF reached THEN "certificate_info" ELSE NoneVal]
        s         == r.summary
    IN  [results |->
            [r EXCEPT
                !.summary = [total_tests |-> s.total_tests + 1,
                             passed |-> s.passed + (IF reached THEN 1 ELSE 0),
                             failed |-> s.failed + (IF raised THEN 1 ELSE 0)],
                !.webserver = Append(@, test_case)],
         ret |-> (test_case.status = "passed")]

\* test_mtls_connection with a return inside its except clauses: a request
\* that raises is counted but its test case is never appended.
test_mtls_connection_return_in_except(r, f, trust_store, out) ==
    IF ~(f.client_cert /\ f.client_key)
    THEN [results |-> r, ret |-> FALSE, skipped |-> TRUE, got |-> FALSE]
    ELSE
    LET ok200     == out.at # "get" /\ out.status_code = 200
        raised    == out.at # "none"
        test_case == [trust_store |-> trust_store.path,
                      status |-> IF ok200 THEN "passed" ELSE "failed",
                      error |-> IF raised THEN ErrorText(out.kind)
                                ELSE IF ok200 THEN NoneVal ELSE "HTTP Error",
                      payload |-> IF ok200 /\ ~raised THEN "response" ELSE NoneVal]
        s         == r.summary
        pass      == ok200 /\ ~raised
    IN  [results |->
            [r EXCEPT
                !.summary = [total_tests |-> s.total_tests + 1,
                             passed |-> s.passed + (IF pass THEN 1 ELSE 0),
                             failed |-> s.failed + (IF pass THEN 0 ELSE 1)],
                !.mtls = IF raised THEN @ ELSE Append(@, test_case)],
         ret |-> (test_case.status = "passed"),
         skipped |-> FALSE,
         got |-> TRUE]

\* test_mtls_connection(trust_store) on results r, file system f, outcome out.
\* Gives the new results, the returned boolean, whether the test was skipped
\* and whether requests.get was called.
test_mtls_connection(r, f, trust_store, out) ==
    IF ~(f.client_cert /\ f.client_key)
    THEN [results |-> r, ret |-> FALSE, skipped |-> TRUE, got |-> FALSE]
    ELSE
    LET ok200     == out.at # "get" /\ out.status_code = 200
        raised    == out.at # "none"
        \* status = "passed" precedes response.json(); passed += 1 follows it
        test_case == [trust_store |-> trust_store.path,
                      status |-> IF ok200 THEN "passed" ELSE "failed",
                      error |-> IF raised THEN ErrorText(out.kind)
                                ELSE IF ok200 THEN NoneVal ELSE "HTTP Error",
                      payload |-> IF ok200 /\ ~raised THEN "response" ELSE NoneVal]
        s         == r.summary
        pass      == ok200 /\ ~raised
    IN  [results |->
            [r EXCEPT
                !.summary = [total_tests |-> s.total_tests + 1,
                             passed |-> s.passed + (IF pass THEN 1 ELSE 0),
                             failed |-> s.failed + (IF pass THEN 0 ELSE 1)],
                !.mtls = Append(@, test_case)],
         ret |-> (test_case.status = "passed"),
         skipped |-> FALSE,
         got |-> TRUE]

\* Path(p).exists(): Path("") is the current directory, which exists.
PathExists(set, exists) == IF set THEN exists ELSE TRUE

\* The ways generate_client_cert can go once it decided to generate.
GenOutcomes == {"ok", "makedirs_error", "keygen_error", "cert_open_error",
                "key_open_error"}

\* generate_client_cert with outcome out: the new file system, the returned
\* value and whether an exception left the function.
generate_client_cert(c, f, out) ==
    IF PathExists(c.client_cert, f.client_cert) /\ PathExists(c.client_key, f.client_key)
    THEN [fs |-> f, ret |-> "True", raised |-> FALSE]
    ELSE IF out = "makedirs_error"
    THEN \* os.makedirs stands before the try
         [fs |-> f, ret |-> NoneVal, raised |-> TRUE]
    ELSE IF out = "keygen_error" \/ out = "cert_open_error"
    THEN [fs |-> f, ret |-> "False", raised |-> FALSE]
    ELSE IF out = "key_open_error"
    THEN [fs |-> [f EXCEPT !.client_cert = TRUE], ret |-> "False", raised |-> FALSE]
    ELSE [fs |-> [f EXCEPT !.client_cert = TRUE, !.client_key = TRUE],
          ret |-> "True", raised |-> FALSE]

\* The outcomes the configuration allows: an empty path is the current
\* directory, so makedirs of its parent succeeds and opening it for writing
\* fails.
GenAllowed(c, out) ==
    /\ (out = "makedirs_error" => c.client_cert)
    /\ (~c.client_cert => out \in {"keygen_error", "cert_open_error"})
    /\ (~c.client_key => out # "ok")

\* The empty check of run_tests returning True instead of False.
CheckTrustStores_returns_true(stores) ==
    IF Len(stores) = 0
    THEN [returned |-> TRUE, success |-> TRUE]
    ELSE [returned |-> FALSE, success |-> TRUE]

\* run_tests, lines 216-221: an empty discovery returns False at once; any
\* other starts the loop with success = True.
CheckTrustStores(stores) ==
    IF Len(stores) = 0
    THEN [returned |-> TRUE, success |-> FALSE]
    ELSE [returned |-> FALSE, success |-> TRUE]

\* run_tests, lines 224-225 and 229-230: a test's result folded into success.
FoldSuccess(s, ret) == IF ~ret THEN FALSE ELSE s

\* run_tests, line 228: mTLS testing is enabled by two non-empty paths.
MtlsEnabled(c) == c.client_cert /\ c.client_key

-----------------------------------------------------------------------------
(* Certificate Info Server: data *)

\* A certificate file is a sequence of blocks:
\*   "C1", "C2"  a well-formed certificate (1 or 2): the 27 bytes
\*               -----BEGIN CERTIFICATE-----, the body and the END line
\*   "B"         the BEGIN marker followed by bytes the parser rejects
\*   "x"         a byte that is part of no marker
Symbols == {"x", "B", "C1", "C2"}
Certs == {"C1", "C2"}
Markers == {"B"} \cup Certs

Contents(n) == UNION {[1..k -> Symbols] : k \in 0..n}

Files(n) == {[exists |-> FALSE, data |-> <<>>]}
            \cup {[exists |-> TRUE, data |-> d] : d \in Contents(n)}

Absent == "absent"
VerifyValues == {Absent, "SUCCESS", "success", "FAILED", "NONE"}
DnValues == {Absent, "SUCCESS"}

NoList == [none |-> TRUE, list |-> <<>>]
SomeList(l) == [none |-> FALSE, list |-> l]

NoClient == [has_client_cert |-> FALSE, client_verify |-> NoneVal, client_dn |-> NoneVal]

NoResponse ==
    [endpoint |-> NoneVal, error |-> NoneVal, status |-> NoneVal,
     server_certificate |-> NoneVal, intermediate_ca |-> NoneVal,
     root_ca |-> NoneVal, protocol_version |-> NoneVal, cipher_suite |-> NoneVal,
     chain_length |-> 0, ca_trust_store |-> NoList, client_certificate |-> NoClient,
     chain_iterations |-> 0, ca_iterations |-> 0]

NoRequest == [path |-> NoneVal, verify |-> Absent, dn |-> Absent]

-----------------------------------------------------------------------------
(* Certificate Info Server: operations *)

Min(S) == CHOOSE m \in S : \A n \in S : m <= n

\* bytes.find(marker, start): the 0-based position of the first marker at or
\* after start, or -1.  Positions count blocks: a marker stands at position 0
\* exactly when the data begins with one.
Find(data, start) ==
    LET hits == {i \in start..(Len(data) - 1) : data[i + 1] \in Markers}
    IN  IF hits = {} THEN -1 ELSE Min(hits)

\* marker in data
HasMarker(data) == Find(data, 0) # -1

\* data[p:] for the p that find returned.  data[-1:] is the last byte of the
\* data, one byte of no marker whatever block it ends.
SliceFrom(data, p) ==
    IF p = -1 THEN <<"x">> ELSE SubSeq(data, p + 1, Len(data))

\* crypto.load_certificate(FILETYPE_PEM, data): the first PEM block decides;
\* bytes before it are skipped.  "error" when it raises.
load_certificate(data) ==
    LET p == Find(data, 0)
    IN  IF p = -1 THEN "error"
        ELSE IF data[p + 1] \in Certs THEN data[p + 1]
        ELSE "error"

\* get_certificate_details: the certificate's details stand for themselves.
get_certificate_details(cert) == cert

\* The while loop of lines 66-72 from the state (current, certs) after n
\* iterations: the certificates collected, whether load_certificate raised,
\* and the number of iterations run.
RECURSIVE ChainLoop(_, _, _)
ChainLoop(current, certs, n) ==
    IF current = <<>>
    THEN [certs |-> certs, raised |-> FALSE, iterations |-> n]
    ELSE LET cert == load_certificate(current)
         IN  IF cert = "error"
             THEN [certs |-> certs, raised |-> TRUE, iterations |-> n + 1]
             ELSE LET rest == SliceFrom(current, Find(current, 1))
                  IN  IF ~HasMarker(rest)
                      THEN [certs |-> Append(certs, cert), raised |-> FALSE,
                            iterations |-> n + 1]
                      ELSE ChainLoop(rest, Append(certs, cert), n + 1)

\* Lines 59-82: intermediate_ca and root_ca from the chain file.
ReadChain(file) ==
    IF ~file.exists
    THEN [intermediate_ca |-> NoneVal, root_ca |-> NoneVal, iterations |-> 0]
    ELSE LET l == ChainLoop(file.data, <<>>, 0)
         IN  IF l.raised
             THEN [intermediate_ca |-> NoneVal, root_ca |-> NoneVal,
                   iterations |-> l.iterations]
             ELSE [intermediate_ca |->
                       IF Len(l.certs) > 0 THEN get_certificate_details(l.certs[1])
                       ELSE NoneVal,
                   root_ca |->
                       IF Len(l.certs) > 1 THEN get_certificate_details(l.certs[2])
                       ELSE NoneVal,
                   iterations |-> l.iterations]

\* The while loop of lines 111-121.
RECURSIVE CaLoop(_, _, _)
CaLoop(current, ca_certs, n) ==
    IF current = <<>>
    THEN [certs |-> ca_certs, iterations |-> n]
    ELSE LET cert == load_certificate(current)
         IN  IF cert = "error"
             THEN [certs |-> ca_certs, iterations |-> n + 1]
             ELSE LET next_pos == Find(current, 1)
                  IN  IF next_pos = -1
                      THEN [certs |-> Append(ca_certs, get_certificate_details(cert)),
                            iterations |-> n + 1]
                      ELSE CaLoop(SliceFrom(current, next_pos),
                                  Append(ca_certs, get_certificate_details(cert)),
                                  n + 1)

\* The search for the next marker without its start argument.
FindNext_from_zero(current) == Find(current, 0)

\* current.find(b'-----BEGIN CERTIFICATE-----', 1) of lines 70 and 116
FindNext(current) == Find(current, 1)

\* One iteration of the while loop of lines 66-72 (current is not empty):
\* the new current and certs, and how the iteration leaves the loop
\* ("raised", "break") or not ("none").
ChainIteration(current, certs) ==
    LET cert == load_certificate(current)
    IN  IF cert = "error"
        THEN [current |-> current, certs |-> certs, exit |-> "raised"]
        ELSE LET rest == SliceFrom(current, FindNext(current))
             IN  [current |-> rest, certs |-> Append(certs, cert),
                  exit |-> IF ~HasMarker(rest) THEN "break" ELSE "none"]

\* One iteration of the while loop of lines 111-121 (current is not empty).
CaIteration(current, ca_certs) ==
    LET cert == load_certificate(current)
    IN  IF cert = "error"
        THEN [current |-> current, certs |-> ca_certs, exit |-> "break"]
        ELSE LET next_pos == FindNext(current)
                 got      == Append(ca_certs, get_certificate_details(cert))
             IN  IF next_pos = -1
                 THEN [current |-> current, certs |-> got, exit |-> "break"]
                 ELSE [current |-> SliceFrom(current, next_pos), certs |-> got,
                       exit |-> "none"]

\* Lines 104-127: ca_trust_store from the CA trust-store file.
ReadCaTrustStore(file) ==
    IF ~file.exists \/ file.data = <<>>
    THEN [ca_trust_store |-> NoList, iterations |-> 0]
    ELSE LET l == CaLoop(file.data, <<>>, 0)
         IN  [ca_trust_store |-> SomeList(l.certs), iterations |-> l.iterations]

\* Lines 97-101
ChainLength(intermediate_ca, root_ca) ==
    1 + (IF intermediate_ca # NoneVal THEN 1 ELSE 0)
      + (IF root_ca # NoneVal THEN 1 ELSE 0)

\* get_certificate_chain_info() for the files on disk and the outcome tls_ok
\* of the connection the server opens to itself.
get_certificate_chain_info(crt, chain, ca, tls_ok) ==
    IF crt = "error"
    THEN [NoResponse EXCEPT !.error = "error"]
    ELSE LET c == ReadChain(chain)
             t == ReadCaTrustStore(ca)
         IN  [NoResponse EXCEPT
                !.server_certificate = get_certificate_details(crt),
                !.intermediate_ca = c.intermediate_ca,
                !.root_ca = c.root_ca,
                !.protocol_version = IF tls_ok THEN "TLSv1.3" ELSE "Error getting protocol version",
                !.cipher_suite = IF tls_ok THEN "cipher" ELSE NoneVal,
                !.chain_length = ChainLength(c.intermediate_ca, c.root_ca),
                !.ca_trust_store = t.ca_trust_store,
                !.chain_iterations = c.iterations,
                !.ca_iterations = t.iterations]

\* request.headers.get(name, 'None')
HeaderGet(value) == IF value = Absent THEN "None" ELSE value

\* get_client_cert_info comparing the verification header without regard to
\* case.
get_client_cert_info_ignoring_case(req) ==
    LET client_verify == HeaderGet(req.verify)
    IN  [has_client_cert |-> (client_verify \in {"SUCCESS", "success"}),
         client_verify |-> client_verify,
         client_dn |-> HeaderGet(req.dn)]

\* get_client_cert_info() for the headers of the request
get_client_cert_info(req) ==
    LET client_verify == HeaderGet(req.verify)
    IN  [has_client_cert |-> (client_verify = "SUCCESS"),
         client_verify |-> client_verify,
         client_dn |-> HeaderGet(req.dn)]

\* mtls_info(): the body of the /mtls response
mtls_info(req, crt, chain, ca, tls_ok) ==
    LET cert_chain == get_certificate_chain_info(crt, chain, ca, tls_ok)
    IN  [NoResponse EXCEPT
            !.endpoint = "/mtls",
            !.server_certificate = cert_chain.server_certificate,
            !.ca_trust_store = cert_chain.ca_trust_store,
            !.client_certificate = get_client_cert_info(req)]

\* cert_info(): the body of the /api/cert-info response
cert_info(crt, chain, ca, tls_ok) ==
    [get_certificate_chain_info(crt, chain, ca, tls_ok) EXCEPT
        !.endpoint = "/api/cert-info"]

\* status(): the body of the /api/status response (timestamp left out)
status == [NoResponse EXCEPT !.endpoint = "/api/status", !.status = "ok"]

-----------------------------------------------------------------------------
(* Certificate Info Server: requests *)

\* No loop under way.
NoLoop == [which |-> NoneVal, data |-> <<>>, current |-> <<>>, certs |-> <<>>,
           n |-> 0, state |-> NoneVal]

ServerIdle ==
    /\ loop = NoLoop
    /\ chain_file = [exists |-> FALSE, data |-> <<>>]
    /\ ca_file = [exists |-> FALSE, data |-> <<>>]
    /\ server_crt = "error"
    /\ request = NoRequest
    /\ response = NoResponse

ServerInit ==
    /\ loop = NoLoop
    /\ chain_file \in Files(MaxLen)
    /\ ca_file \in Files(MaxLen - Len(chain_file.data))
    /\ server_crt \in {"c0", "error"}
    /\ request = NoRequest
    /\ response = NoResponse

\* GET /api/status
GetStatus ==
    /\ request' = [NoRequest EXCEPT !.path = "/api/status"]
    /\ response' = status
    /\ UNCHANGED <<chain_file, ca_file, server_crt, loop, vvars>>

\* GET /api/cert-info
GetCertInfo ==
    /\ \E tls_ok \in BOOLEAN :
        response' = cert_info(server_crt, chain_file, ca_file, tls_ok)
    /\ request' = [NoRequest EXCEPT !.path = "/api/cert-info"]
    /\ UNCHANGED <<chain_file, ca_file, server_crt, loop, vvars>>

\* GET /mtls with the two headers the reverse proxy sets (or not)
GetMtls ==
    /\ \E v \in VerifyValues, d \in DnValues, tls_ok \in BOOLEAN :
        /\ request' = [path |-> "/mtls", verify |-> v, dn |-> d]
        /\ response' = mtls_info(request', server_crt, chain_file, ca_file, tls_ok)
    /\ UNCHANGED <<chain_file, ca_file, server_crt, loop, vvars>>

ServerNext ==
    \/ GetStatus
    \/ GetCertInfo
    \/ GetMtls

-----------------------------------------------------------------------------
(* Certificate Info Server: the two PEM-splitting loops, iteration by iteration *)

\* The loops as they are entered: the chain loop with whatever f.read() gave
\* (line 65), the CA loop with non-empty data only (line 108).
LoopStarts ==
    {[which |-> "chain", data |-> d, current |-> d, certs |-> <<>>, n |-> 0,
      state |-> "running"] : d \in Contents(MaxLen)}
    \cup
    {[which |-> "ca", data |-> d, current |-> d, certs |-> <<>>, n |-> 0,
      state |-> "running"] : d \in Contents(MaxLen) \ {<<>>}}

\* What one pass over `while current:` and the loop body makes of the loop.
\* The loop is left by the while condition ("done"), by break or by an
\* exception of load_certificate ("raised").
LoopPass(l, it) ==
    IF l.current = <<>>
    THEN [l EXCEPT !.state = "done"]
    ELSE [l EXCEPT !.current = it.current, !.certs = it.certs, !.n = @ + 1,
                   !.state = IF it.exit = "none" THEN "running" ELSE it.exit]

\* lines 66-72
ChainLoopStep ==
    /\ loop.which = "chain"
    /\ loop.state = "running"
    /\ loop.n <= MaxLen + 1
    /\ loop' = LoopPass(loop, ChainIteration(loop.current, loop.certs))
    /\ UNCHANGED <<chain_file, ca_file, server_crt, request, response, vvars>>

\* lines 111-121
CaLoopStep ==
    /\ loop.which = "ca"
    /\ loop.state = "running"
    /\ loop.n <= MaxLen + 1
    /\ loop' = LoopPass(loop, CaIteration(loop.current, loop.certs))
    /\ UNCHANGED <<chain_file, ca_file, server_crt, request, response, vvars>>

LoopNext ==
    \/ ChainLoopStep
    \/ CaLoopStep

-----------------------------------------------------------------------------
(* Trust Store Validator: the run *)

ValidatorInit ==
    /\ pc = "main"
    /\ config \in [client_cert : BOOLEAN, client_key : BOOLEAN, output : BOOLEAN]
    /\ fs \in [client_cert : BOOLEAN, client_key : BOOLEAN,
               pem : 0..MaxStores, jks : 0..MaxStores, keytool : BOOLEAN]
    /\ fs.pem + fs.jks <= MaxStores
    \* os.path.exists("") is False
    /\ fs.client_cert => config.client_cert
    /\ fs.client_key => config.client_key
    /\ trust_stores = <<>>
    /\ idx = 0
    /\ test_results = InitResults
    /\ success = NoneVal
    /\ calls = <<>>
    /\ https_gets = 0
    /\ gen_ret = NoneVal
    /\ exit_code = NoneVal

Init == ValidatorInit /\ ServerIdle

\* main, line 328: validator.generate_client_cert()
GenerateClientCert ==
    /\ pc = "main"
    /\ \E out \in GenOutcomes :
        /\ GenAllowed(config, out)
        /\ LET g == generate_client_cert(config, fs, out)
           IN  /\ fs' = g.fs
               /\ gen_ret' = g.ret
               /\ pc' = IF g.raised THEN "aborted" ELSE "run_tests"
               /\ exit_code' = IF g.raised THEN 1 ELSE exit_code
    /\ UNCHANGED <<config, trust_stores, idx, test_results, success, calls,
                   https_gets, svars>>

\* run_tests, lines 215-221: discovery and the empty check
Discover ==
    /\ pc = "run_tests"
    /\ trust_stores' = discover_trust_stores(fs)
    /\ LET c == CheckTrustStores(trust_stores')
       IN  /\ success' = c.success
           /\ pc' = IF c.returned THEN "exit" ELSE "webserver"
           /\ idx' = IF c.returned THEN idx ELSE 1
    /\ UNCHANGED <<config, fs, test_results, calls, https_gets, gen_ret,
                   exit_code, svars>>

\* where the for loop goes after the tests of trust_stores[idx]
NextStore == IF idx < Len(trust_stores) THEN "webserver" ELSE "finish"

\* run_tests, lines 224-225
TestWebserver ==
    /\ pc = "webserver"
    /\ LET ts == trust_stores[idx]
       IN  \E out \in WebOutcomes(ts) :
            LET t == test_webserver_connection(test_results, ts, out)
            IN  /\ test_results' = t.results
                /\ success' = FoldSuccess(success, t.ret)
                /\ calls' = Append(calls, [op |-> "webserver", type |-> ts.type,
                                           skipped |-> FALSE, ret |-> t.ret,
                                           raised |-> (out.at # "none"),
                                           status_code |-> 0])
    /\ IF MtlsEnabled(config)
       THEN pc' = "mtls" /\ idx' = idx
       ELSE pc' = NextStore /\ idx' = idx + 1
    /\ UNCHANGED <<config, fs, trust_stores, https_gets, gen_ret, exit_code, svars>>

\* run_tests, lines 228-230
TestMtls ==
    /\ pc = "mtls"
    /\ LET ts == trust_stores[idx]
       IN  \E out \in MtlsOutcomes :
            LET t == test_mtls_connection(test_results, fs, ts, out)
            IN  /\ test_results' = t.results
                /\ success' = FoldSuccess(success, t.ret)
                /\ calls' = Append(calls, [op |-> "mtls", type |-> ts.type,
                                           skipped |-> t.skipped, ret |-> t.ret,
                                           raised |-> (~t.skipped /\ out.at # "none"),
                                           status_code |->
                                               IF t.skipped THEN 0 ELSE out.status_code])
                /\ https_gets' = https_gets + (IF t.got THEN 1 ELSE 0)
    /\ pc' = NextStore
    /\ idx' = idx + 1
    /\ UNCHANGED <<config, fs, trust_stores, gen_ret, exit_code, svars>>

\* run_tests, lines 233-249: end time, optional JSON dump, summary, return.
\* open(config.output, 'w') is not guarded: when it raises, run_tests does.
Finish ==
    /\ pc = "finish"
    /\ \E write_ok \in BOOLEAN :
        /\ (~config.output => write_ok)
        /\ pc' = IF write_ok THEN "exit" ELSE "aborted"
        /\ exit_code' = IF write_ok THEN exit_code ELSE 1
    /\ UNCHANGED <<config, fs, trust_stores, idx, test_results, success, calls,
                   https_gets, gen_ret, svars>>

\* main, line 334: sys.exit(0 if success else 1)
Exit ==
    /\ pc = "exit"
    /\ exit_code' = IF success = TRUE THEN 0 ELSE 1
    /\ pc' = "done"
    /\ UNCHANGED <<config, fs, trust_stores, idx, test_results, success, calls,
                   https_gets, gen_ret, svars>>

Next ==
    \/ GenerateClientCert
    \/ Discover
    \/ TestWebserver
    \/ TestMtls
    \/ Finish
    \/ Exit

Spec == Init /\ [][Next]_vars

\* The validator before main() runs, with one configuration.
ValidatorIdle ==
    /\ pc = "main"
    /\ config = [client_cert |-> TRUE, client_key |-> TRUE, output |-> FALSE]
    /\ fs = [client_cert |-> FALSE, client_key |-> FALSE, pem |-> 0, jks |-> 0,
             keytool |-> FALSE]
    /\ trust_stores = <<>>
    /\ idx = 0
    /\ test_results = InitResults
    /\ success = NoneVal
    /\ calls = <<>>
    /\ https_gets = 0
    /\ gen_ret = NoneVal
    /\ exit_code = NoneVal

ServerStart == ValidatorIdle /\ ServerInit

ServerSpec == ServerStart /\ [][ServerNext]_vars

LoopStart ==
    /\ ValidatorIdle
    /\ chain_file = [exists |-> FALSE, data |-> <<>>]
    /\ ca_file = [exists |-> FALSE, data |-> <<>>]
    /\ server_crt = "c0"
    /\ request = NoRequest
    /\ response = NoResponse
    /\ loop \in LoopStarts

\* The request handler is one thread that keeps running: a loop that can
\* make another pass does.
LoopSpec == LoopStart /\ [][LoopNext]_vars /\ WF_vars(LoopNext)

-----------------------------------------------------------------------------
(* Properties of the Trust Store Validator (specification Spec) *)

Summary == test_results.summary

\* run_tests has returned (main is about to exit, or has)
RunEnded == pc \in {"exit", "done"}

CredentialsPresent == fs.client_cert /\ fs.client_key

AllCases == test_results.webserver \o test_results.mtls

Last(seq) == seq[Len(seq)]

\* C1: at the end of any run of run_tests, whatever the outcome of each test
\* (success, TLS error, any other exception raised at any point of the try
\* block), passed + failed equals total_tests.
C1_PassedPlusFailedIsTotal ==
    RunEnded => Summary.passed + Summary.failed = Summary.total_tests

\* C2: total_tests always equals the number of recorded webserver cases plus
\* the number of recorded mTLS cases; every webserver test adds 1 to
\* total_tests and one case to the webserver list, every mTLS test run with
\* both credential files present adds 1 to total_tests and one case to the
\* mtls list; and once the loop is over every discovered trust store has its
\* webserver case and, when mTLS is enabled and the files are present, its
\* mTLS case.
C2_TotalMatchesLists ==
    Summary.total_tests = Len(test_results.webserver) + Len(test_results.mtls)

C2_TestStep ==
    /\ pc = "webserver" =>
        /\ Summary'.total_tests = Summary.total_tests + 1
        /\ Len(test_results'.webserver) = Len(test_results.webserver) + 1
        /\ test_results'.mtls = test_results.mtls
    /\ (pc = "mtls" /\ CredentialsPresent) =>
        /\ Summary'.total_tests = Summary.total_tests + 1
        /\ Len(test_results'.mtls) = Len(test_results.mtls) + 1
        /\ test_results'.webserver = test_results.webserver

C2_EveryStoreTested ==
    pc = "finish" =>
        /\ Len(test_results.webserver) = Len(trust_stores)
        /\ (MtlsEnabled(config) /\ CredentialsPresent
                => Len(test_results.mtls) = Len(trust_stores))

C2_TotalTestsCountsCases ==
    /\ [](C2_TotalMatchesLists /\ C2_EveryStoreTested)
    /\ [][C2_TestStep]_vars

\* C2 witness: a run over two trust stores with both tests recorded for each
C2_Witness ==
    /\ pc = "done"
    /\ Len(test_results.webserver) = 2
    /\ Len(test_results.mtls) = 2
    /\ Summary.total_tests = 4

\* C3: once trust stores were discovered and main has exited, the exit code
\* is 0 exactly when every executed test case (every recorded webserver and
\* mTLS case) passed; a test that was not executed does not change it.
C3_ExitCodeIsAndOfExecuted ==
    (pc = "done" /\ Len(trust_stores) > 0) =>
        ((success = TRUE /\ exit_code = 0)
            <=> \A i \in 1..Len(AllCases) : AllCases[i].status = "passed")

\* C4: when discovery yields no trust store, run_tests returns False at once:
\* no test operation was invoked, no request made, the counters are 0 and
\* the lists empty, and the process exits with 1.
C4_NoTrustStoresFailsAtOnce ==
    (RunEnded /\ Len(trust_stores) = 0) =>
        /\ success = FALSE
        /\ Summary = [total_tests |-> 0, passed |-> 0, failed |-> 0]
        /\ test_results.webserver = <<>>
        /\ test_results.mtls = <<>>
        /\ calls = <<>>
        /\ https_gets = 0
        /\ (pc = "done" => exit_code = 1)

\* C4 witness: main has exited after a discovery that found nothing although
\* a keystore lies in scan_dir (keytool is missing)
C4_Witness ==
    /\ pc = "done"
    /\ trust_stores = <<>>
    /\ fs.jks > 0
    /\ exit_code = 1

\* C5: an mTLS test run while a client credential file is absent is skipped
\* and not counted as a failure: no request is made, the results are
\* unchanged, and the run's overall result is not turned into a failure.
C5_SkipStep ==
    (pc = "mtls" /\ ~CredentialsPresent) =>
        /\ test_results' = test_results
        /\ https_gets' = https_gets
        /\ success' = success

C5_SkipIsNotAFailure == [][C5_SkipStep]_vars

\* C6: test_webserver_connection is never invoked with a trust store of type
\* jks, so keystores add no webserver test case and no counter increment.
C6_WebserverTestOnlyOnPem ==
    /\ \A i \in 1..Len(calls) :
        calls[i].op = "webserver" => calls[i].type # "jks"
    /\ Len(test_results.webserver) <= fs.pem

\* C7: for an mTLS test that is not skipped, the recorded status is passed,
\* and the operation returns True, exactly when the request completed with
\* status 200 and nothing raised in the try block.
C7_MtlsStep ==
    (pc = "mtls" /\ CredentialsPresent) =>
        LET c == Last(calls')
            passed200 == c.status_code = 200 /\ ~c.raised
        IN  /\ Last(test_results'.mtls).status = "passed" <=> passed200
            /\ c.ret <=> passed200

C7_Status200IsSoleSuccess == [][C7_MtlsStep]_vars

\* C8: generate_client_cert never aborts the program: it returns True or
\* False, and main goes on to run_tests.
C8_GenerateNeverAborts ==
    pc # "main" => gen_ret \in {"True", "False"}

\* the number of recorded cases (webserver and mTLS) with the given status
CountStatus(st) == Len(SelectSeq(AllCases, LAMBDA tc : tc.status = st))

\* C11: after any sequence of test invocations the summary agrees with the
\* recorded cases: passed is the number of cases with status passed, failed
\* the number with status failed, and a case with status passed has no error.
C11_SummaryAgreesWithCases ==
    /\ Summary.passed = CountStatus("passed")
    /\ Summary.failed = CountStatus("failed")
    /\ \A i \in 1..Len(AllCases) :
        AllCases[i].status = "passed" => AllCases[i].error = NoneVal

-----------------------------------------------------------------------------
(* Properties of the Certificate Info Server (specification ServerSpec) *)

\* the certificates of a chain file, in file order
CertsIn(data) == SelectSeq(data, LAMBDA b : b \in Certs)

\* every BEGIN marker of the file starts a well-formed certificate
WellFormed(data) == \A i \in 1..Len(data) : data[i] # "B"

Populated(v) == IF v # NoneVal THEN 1 ELSE 0

\* C9: in a /api/cert-info answer, for every chain file content (bytes before
\* the first marker included): 2 certificates give intermediate_ca the first
\* and root_ca the second, exactly 1 certificate gives intermediate_ca only,
\* no chain file gives neither and chain_length 1; chain_length is 1 plus the
\* number of populated CA fields.
C9_ChainClassifiedByCount ==
    (response.endpoint = "/api/cert-info" /\ response.error = NoneVal) =>
        LET certs == CertsIn(chain_file.data)
            wf    == chain_file.exists /\ WellFormed(chain_file.data)
        IN  /\ (wf /\ Len(certs) = 2) =>
                /\ response.intermediate_ca = certs[1]
                /\ response.root_ca = certs[2]
            /\ (wf /\ Len(certs) = 1) =>
                /\ response.intermediate_ca = certs[1]
                /\ response.root_ca = NoneVal
            /\ ~chain_file.exists =>
                /\ response.intermediate_ca = NoneVal
                /\ response.root_ca = NoneVal
                /\ response.chain_length = 1
            /\ response.chain_length =
                1 + Populated(response.intermediate_ca) + Populated(response.root_ca)

\* C10: in a /mtls answer has_client_cert is true exactly when the request
\* carried X-SSL-Client-Verify: SUCCESS, whatever X-SSL-Client-DN says and
\* whether or not the server certificate could be read.
C10_HasClientCertIffSuccess ==
    response.endpoint = "/mtls" =>
        (response.client_certificate.has_client_cert <=> request.verify = "SUCCESS")

\* C10 witness: has_client_cert is true for a SUCCESS request without a DN
\* header, the server certificate being unreadable
C10_Witness ==
    /\ response.endpoint = "/mtls"
    /\ request.verify = "SUCCESS"
    /\ request.dn = Absent
    /\ server_crt = "error"
    /\ response.client_certificate.has_client_cert

-----------------------------------------------------------------------------
(* Properties of the PEM-splitting loops (specification LoopSpec) *)

\* the number of BEGIN CERTIFICATE markers in the data
CountMarkers(data) == Len(SelectSeq(data, LAMBDA b : b \in Markers))

\* the number of iterations is at most the number of markers plus one
C12_IterationsBounded ==
    loop.which # NoneVal => loop.n <= CountMarkers(loop.data) + 1

\* an iteration leaves the loop or strictly shortens the remaining data
C12_IterationStep ==
    (loop.state = "running" /\ loop.current # <<>>) =>
        /\ loop'.n = loop.n + 1
        /\ \/ loop'.state # "running"
           \/ Len(loop'.current) < Len(loop.current)

\* C12: both PEM-splitting loops (chain file, CA trust-store file) terminate
\* for every file content, well-formed or not: each iteration leaves the
\* loop (break, exception) or strictly shortens the remaining data, the
\* number of iterations is at most the number of BEGIN CERTIFICATE markers
\* plus one, and the loop is eventually left.
C12_LoopsTerminate ==
    /\ []C12_IterationsBounded
    /\ [][C12_IterationStep]_vars
    /\ <>(loop.state # "running")

\* C12 witness: the chain loop has ended after markers + 1 iterations on a
\* file with a byte before two certificates, with the result and iteration
\* count the whole-loop definition gives
C12_Witness ==
    /\ loop.which = "chain"
    /\ loop.state = "break"
    /\ loop.data = <<"x", "C1", "C2">>
    /\ loop.n = CountMarkers(loop.data) + 1
    /\ loop.n = ChainLoop(loop.data, <<>>, 0).iterations
    /\ loop.certs = ChainLoop(loop.data, <<>>, 0).certs

=============================================================================
